---- MODULE Spec2Model ----
(***************************************************************************)
(* Real-time connection / broadcast core of the donation backend:         *)
(*   src/websocket_manager.py  ConnectionManager (registry + broadcast)    *)
(*   src/main.py               websocket_endpoint (per-connection session) *)
(*   src/auth.py               verify_token                                *)
(*                                                                         *)
(* The program runs on one asyncio event loop: code between two awaits is  *)
(* atomic, and other tasks run only while a task is suspended on an await. *)
(* Every action below is the code from one suspension point to the next.   *)
(*                                                                         *)
(* active_connections is a Python dict.  Iterating it while it changes is  *)
(* defined by CPython: the iterator remembers the dict's size and the      *)
(* number of items still to yield, walks the insertion-ordered entry array *)
(* (deleted keys leave a hole) and raises RuntimeError when the size       *)
(* differs or when it finds an entry it no longer expects.  The entry      *)
(* array is compacted only on the 6th insertion, which the bounds on the   *)
(* number of connection handles keep out of reach.                         *)
(***************************************************************************)
EXTENDS Integers, Sequences, FiniteSets, TLC

\* ---------------------------------------------------------------- bounds
MaxConn  == 2      \* connection handles (each WebSocket object is used once)
MaxBcast == 2      \* broadcast calls issued by HTTP producers
MaxMsgs  == 1      \* inbound messages handled, all sessions together
MaxCalls == 3      \* connect() calls per handle when the manager is driven directly

Conns  == 1..MaxConn
Bcasts == 1..MaxBcast

\* ------------------------------------------------------------ identities
None       == "none"                 \* Python None / absent
Tomb       == "tomb"                 \* hole left in the dict's entry array
ActiveAdmins   == {"a", "b"}         \* Admin rows with is_active = True
InactiveAdmins == {"z"}              \* Admin row with is_active = False
Identities == ActiveAdmins           \* usernames that can be registry keys

\* A bearer token: whether jwt.decode accepts it (signature, expiry) and
\* the "sub" claim it carries (None when the claim is missing).
Tokens == { [valid |-> FALSE, sub |-> "a"],
            [valid |-> TRUE,  sub |-> None],
            [valid |-> TRUE,  sub |-> "a"],
            [valid |-> TRUE,  sub |-> "b"],
            [valid |-> TRUE,  sub |-> "z"],
            [valid |-> TRUE,  sub |-> "ghost"] }

PolicyViolation == 1008
NoClose == [code |-> 0, reason |-> None]

VARIABLES
  active_connections,  \* the dict: [order: entry array, sets: key -> set]
  connection_count,    \* ConnectionManager.connection_count
  pc,                  \* session state of each connection handle
  tr,                  \* transport of each handle: "open", or "down" once
                       \* the client is gone or the server has closed it
  ident,               \* admin_username of the session (None before auth)
  log,                 \* messages written to each connection, in send
                       \* order, while its session runs
  recvd,               \* inbound messages handled so far
  last,                \* (history) the inbound text handled by the step
                       \* just taken, None after any other step
  close,               \* close(code, reason) issued by the server, if any
  bpc,                 \* position of each broadcast call
  bexcl,               \* its exclude_admin argument
  bit,                 \* its dict iterator: [pos, used, len]
  bcur,                \* its loop variable admin_username
  bcopy,               \* connections.copy() not yet iterated
  bdisc,               \* its list `disconnected`
  bwait,               \* the connection whose send it is suspended on
  bstart               \* (history) connections registered when it was called

regvars  == <<active_connections, connection_count>>
sessvars == <<pc, tr, ident, log, recvd, close>>
bvars    == <<bpc, bexcl, bit, bcur, bcopy, bdisc, bwait, bstart>>
vars     == <<active_connections, connection_count, pc, tr, ident,
              log, recvd, last, close, bpc, bexcl, bit, bcur, bcopy, bdisc, bwait,
              bstart>>

\* ------------------------------------------------------------- registry
Keys(ac) == {ac.order[k] : k \in 1..Len(ac.order)} \ {Tomb}

\* get_connected_admins()
ConnectedAdmins == Keys(active_connections)

\* get_connection_count()
Count == connection_count

\* the (identity, connection) pairs held by the dict
Pairs(ac) == {p \in Identities \X Conns : p[1] \in Keys(ac) /\ p[2] \in ac.sets[p[1]]}

RegisteredConns == {p[2] : p \in Pairs(active_connections)}

\* del d[u]: the entry becomes a hole, the array keeps its length
DelKey(ac, u) ==
  [order |-> [k \in 1..Len(ac.order) |->
                 IF ac.order[k] = u THEN Tomb ELSE ac.order[k]],
   sets  |-> [ac.sets EXCEPT ![u] = {}]]

\* registry part of ConnectionManager.connect (lines 27-31)
Register(m, c, u) ==
  LET ac1 == IF u \notin Keys(m.ac)
             THEN [order |-> Append(m.ac.order, u),
                   sets  |-> [m.ac.sets EXCEPT ![u] = {}]]
             ELSE m.ac
  IN [ac  |-> [ac1 EXCEPT !.sets[u] = @ \cup {c}],
      cnt |-> m.cnt + 1]

\* disconnect() that counts down but forgets the discard
Disconnect_NoDiscard(m, c, u) ==
  IF u \in Keys(m.ac) THEN [m EXCEPT !.cnt = @ - 1] ELSE m

\* disconnect() that never deletes an identity whose set became empty
Disconnect_NoPrune(m, c, u) ==
  IF u \in Keys(m.ac)
  THEN [ac  |-> [m.ac EXCEPT !.sets[u] = @ \ {c}],
        cnt |-> m.cnt - 1]
  ELSE m

\* disconnect() that deletes the identity with all its connections
Disconnect_DropKey(m, c, u) ==
  IF u \in Keys(m.ac)
  THEN [ac |-> DelKey(m.ac, u), cnt |-> m.cnt - 1]
  ELSE m

\* ConnectionManager.disconnect (lines 45-55)
Disconnect(m, c, u) ==
  IF u \in Keys(m.ac)
  THEN LET ac1 == [m.ac EXCEPT !.sets[u] = @ \ {c}]
       IN [ac  |-> IF ac1.sets[u] = {} THEN DelKey(ac1, u) ELSE ac1,
           cnt |-> m.cnt - 1]
  ELSE m

Mgr == [ac |-> active_connections, cnt |-> connection_count]

SetMgr(m) ==
  /\ active_connections' = m.ac
  /\ connection_count' = m.cnt

\* a cleanup that empties the registry as soon as one send has failed
DisconnectAll_WholeRegistry(m, disc) ==
  IF disc = <<>> THEN m
  ELSE [ac  |-> [order |-> [k \in 1..Len(m.ac.order) |-> Tomb],
                 sets  |-> [u \in Identities |-> {}]],
        cnt |-> 0]

\* the cleanup loop of broadcast (lines 87-88)
RECURSIVE DisconnectAll(_, _)
DisconnectAll(m, disc) ==
  IF disc = <<>> THEN m
  ELSE DisconnectAll(Disconnect(m, Head(disc)[1], Head(disc)[2]), Tail(disc))

\* ------------------------------------------------------- dict iteration
NewIter(ac) == [pos |-> 0, used |-> Cardinality(Keys(ac)),
                len |-> Cardinality(Keys(ac))]

\* one next() of iter(active_connections.items()) (line 74)
DictNext(ac, it) ==
  IF it.used # Cardinality(Keys(ac))
  THEN [kind |-> "raise", key |-> None, it |-> it]
  ELSE LET live == {k \in (it.pos + 1)..Len(ac.order) : ac.order[k] # Tomb}
       IN IF live = {}
          THEN [kind |-> "stop", key |-> None, it |-> it]
          ELSE IF it.len = 0
          THEN [kind |-> "raise", key |-> None, it |-> it]
          ELSE LET k == CHOOSE x \in live : \A y \in live : x <= y
               IN [kind |-> "yield", key |-> ac.order[k],
                   it |-> [it EXCEPT !.pos = k, !.len = @ - 1]]

\* the outer loop up to the next identity that has something to send:
\* excluded identities are skipped (lines 76-77), an empty copy sends nothing
RECURSIVE NextTarget(_, _, _)
NextTarget(ac, it, excl) ==
  LET r == DictNext(ac, it)
  IN IF r.kind = "yield" /\ (r.key = excl \/ ac.sets[r.key] = {})
     THEN NextTarget(ac, r.it, excl)
     ELSE r

\* ---------------------------------------------------------------- auth
\* verify_token that reads the subject without checking the signature
verify_token_Unchecked(t) == t.sub

\* auth.verify_token (lines 62-71)
verify_token(t) == IF ~t.valid THEN None ELSE t.sub

\* the Admin lookup of websocket_endpoint (lines 548-549)
AdminOk(u) == u \in ActiveAdmins

\* what the token is worth, independently of the code's checks
Genuine(t) == t.valid /\ t.sub \in ActiveAdmins

\* ---------------------------------------------------------------- init
Init ==
  /\ active_connections = [order |-> <<>>, sets |-> [u \in Identities |-> {}]]
  /\ connection_count = 0
  /\ pc = [c \in Conns |-> "Connecting"]
  /\ tr = [c \in Conns |-> "open"]
  /\ ident = [c \in Conns |-> None]
  /\ log = [c \in Conns |-> <<>>]
  /\ recvd = 0
  /\ last = None
  /\ close = [c \in Conns |-> NoClose]
  /\ bpc = [b \in Bcasts |-> "idle"]
  /\ bexcl = [b \in Bcasts |-> None]
  /\ bit = [b \in Bcasts |-> [pos |-> 0, used |-> 0, len |-> 0]]
  /\ bcur = [b \in Bcasts |-> None]
  /\ bcopy = [b \in Bcasts |-> {}]
  /\ bdisc = [b \in Bcasts |-> <<>>]
  /\ bwait = [b \in Bcasts |-> 0]
  /\ bstart = [b \in Bcasts |-> {}]


\* ------------------------------------------------------------- session
\* outbound messages: <<type, number of the broadcast call or 0>>
Ack         == <<"connection_established", 0>>
Pong        == <<"pong", 0>>
StatsUpdate == <<"stats_update", 0>>
Event(b)    == <<"event", b>>

\* a send that writes the message to every connection
Written_ToAll(c, msg) == [c2 \in Conns |-> Append(log[c2], msg)]

\* a send that writes the message twice
Written_Twice(c, msg) == [log EXCEPT ![c] = Append(Append(@, msg), msg)]

Written(c, msg) == [log EXCEPT ![c] = Append(@, msg)]

\* send_personal_message that never reaches the transport
send_personal_message_Lost(c, msg) == log

\* ConnectionManager.send_personal_message (lines 57-62): the log after the
\* call; a send on a transport that is down raises and is swallowed
send_personal_message(c, msg) ==
  IF tr[c] = "open" THEN Written(c, msg) ELSE log

\* websocket.close(code=1008, reason=...) issued by the server
ServerClose(c, reason) ==
  /\ close' = [close EXCEPT ![c] = [code |-> PolicyViolation, reason |-> reason]]
  /\ tr' = [tr EXCEPT ![c] = "down"]

\* websocket_endpoint, lines 538-553 and 611-616: token check and Admin
\* lookup.  Nothing is awaited before the first close, so it is one step.
Authenticate(c, t, dbErr) ==
  /\ pc[c] = "Connecting"
  /\ \A c2 \in Conns : c2 < c => pc[c2] # "Connecting"
  /\ LET u == verify_token(t)
     IN IF u = None
        THEN /\ ServerClose(c, "Invalid authentication token")
             /\ pc' = [pc EXCEPT ![c] = "Rejected"]
             /\ UNCHANGED ident
        ELSE IF dbErr
        THEN /\ ServerClose(c, "Authentication failed")
             /\ pc' = [pc EXCEPT ![c] = "Rejected"]
             /\ UNCHANGED ident
        ELSE IF ~AdminOk(u)
        THEN /\ ServerClose(c, "Admin not found or inactive")
             /\ pc' = [pc EXCEPT ![c] = "Rejected"]
             /\ UNCHANGED ident
        ELSE /\ pc' = [pc EXCEPT ![c] = "Authenticated"]
             /\ ident' = [ident EXCEPT ![c] = u]
             /\ UNCHANGED <<tr, close>>
  /\ UNCHANGED <<regvars, bvars, log, recvd>>
  /\ last' = None

\* ConnectionManager.connect (lines 23-43), resumed after accept(): the
\* handle is registered and the acknowledgment's send is called with no
\* suspension in between.  accept() on a client that is already gone may
\* raise, which the endpoint's outer handler (lines 611-616) turns into a
\* close; a send failure is swallowed by send_personal_message.
Connect(c, acceptRaises) ==
  /\ pc[c] = "Authenticated"
  /\ acceptRaises => tr[c] = "down"
  /\ IF acceptRaises
     THEN /\ ServerClose(c, "Authentication failed")
          /\ pc' = [pc EXCEPT ![c] = "Rejected"]
          /\ UNCHANGED <<regvars, log>>
     ELSE /\ SetMgr(Register(Mgr, c, ident[c]))
          /\ log' = send_personal_message(c, Ack)
          /\ pc' = [pc EXCEPT ![c] = "Active"]
          /\ UNCHANGED <<tr, close>>
  /\ UNCHANGED <<bvars, ident, recvd>>
  /\ last' = None

\* inbound texts, by what json.loads and message.get("type") make of them
Inbound == {"garbage", "nonobject", "ping", "request_stats", "other", "notype"}

\* json.loads that returns a value for any text instead of raising
JsonLoads_Lenient(data) ==
  CASE data = "garbage"   -> [decodeError |-> FALSE, isObject |-> FALSE, type |-> None]
    [] data = "nonobject" -> [decodeError |-> FALSE, isObject |-> FALSE, type |-> None]
    [] data = "notype"    -> [decodeError |-> FALSE, isObject |-> TRUE,  type |-> None]
    [] OTHER              -> [decodeError |-> FALSE, isObject |-> TRUE,  type |-> data]

\* json.loads(data) (line 566)
JsonLoads(data) ==
  CASE data = "garbage"   -> [decodeError |-> TRUE,  isObject |-> FALSE, type |-> None]
    [] data = "nonobject" -> [decodeError |-> FALSE, isObject |-> FALSE, type |-> None]
    [] data = "notype"    -> [decodeError |-> FALSE, isObject |-> TRUE,  type |-> None]
    [] OTHER              -> [decodeError |-> FALSE, isObject |-> TRUE,  type |-> data]

\* the endpoint coroutine has ended: what it was sent is no longer observed
SessionOver(c) ==
  log' = [log EXCEPT ![c] = <<>>]

\* an exception other than WebSocketDisconnect leaves the receive loop:
\* the outer handler closes the transport (lines 611-616); disconnect() is
\* not called on this route
Crash(c) ==
  /\ ServerClose(c, "Authentication failed")
  /\ pc' = [pc EXCEPT ![c] = "Closed"]
  /\ SessionOver(c)
  /\ UNCHANGED regvars

\* a disconnect handler that forgets to unregister
OnDisconnect_Forgets(c) ==
  /\ UNCHANGED regvars
  /\ pc' = [pc EXCEPT ![c] = "Closed"]
  /\ SessionOver(c)

\* except WebSocketDisconnect (lines 608-609)
OnDisconnect(c) ==
  /\ SetMgr(Disconnect(Mgr, c, ident[c]))
  /\ pc' = [pc EXCEPT ![c] = "Closed"]
  /\ SessionOver(c)

\* one iteration of the receive loop (lines 562-606) on a received text.
\* sendOk: whether the client is still there when the reply is written;
\* wsd: whether the failed send surfaces as WebSocketDisconnect or as another
\* exception (it depends on the transport library); dbErr: the stats query
\* raises.
HandleMessage(c, data, sendOk, wsd, dbErr) ==
  /\ pc[c] = "Active"
  /\ tr[c] = "open"
  /\ recvd < MaxMsgs
  /\ recvd' = recvd + 1
  /\ last' = data
  /\ LET m == JsonLoads(data)
     IN IF m.decodeError
        THEN UNCHANGED <<regvars, pc, tr, log, close>>
        ELSE IF ~m.isObject
        THEN Crash(c)
        ELSE IF m.type = "ping"
        THEN IF sendOk
             THEN /\ log' = Written(c, Pong)
                  /\ UNCHANGED <<regvars, pc, tr, close>>
             ELSE IF wsd
             THEN /\ OnDisconnect(c)
                  /\ tr' = [tr EXCEPT ![c] = "down"]
                  /\ UNCHANGED close
             ELSE /\ Crash(c)
        ELSE IF m.type = "request_stats"
        THEN IF dbErr
             THEN Crash(c)
             ELSE IF sendOk
             THEN /\ log' = Written(c, StatsUpdate)
                  /\ UNCHANGED <<regvars, pc, tr, close>>
             ELSE /\ tr' = [tr EXCEPT ![c] = "down"]
                  /\ UNCHANGED <<regvars, pc, log, close>>
        ELSE UNCHANGED <<regvars, pc, tr, log, close>>
  /\ UNCHANGED <<bvars, ident>>

\* receive_text() raises WebSocketDisconnect once the client is gone
\* (lines 562, 608-609)
RecvDisconnect(c) ==
  /\ pc[c] = "Active"
  /\ tr[c] = "down"
  /\ OnDisconnect(c)
  /\ UNCHANGED <<bvars, tr, ident, recvd, close>>
  /\ last' = None

\* ----------------------------------------------------------- the client
ClientDrop(c) ==
  /\ pc[c] \in {"Authenticated", "Active"}
  /\ tr[c] = "open"
  /\ tr' = [tr EXCEPT ![c] = "down"]
  /\ UNCHANGED <<regvars, bvars, pc, ident, log, recvd, close>>
  /\ last' = None

\* ------------------------------------------------------------ broadcast
\* a send that unregisters the connection as soon as it fails
SendTo_EagerCleanup(b, c, it, cur, rest, disc, blocks) ==
  /\ bit' = [bit EXCEPT ![b] = it]
  /\ bcur' = [bcur EXCEPT ![b] = cur]
  /\ bcopy' = [bcopy EXCEPT ![b] = rest]
  /\ IF tr[c] = "open"
     THEN /\ log' = Written(c, Event(b))
          /\ bpc' = [bpc EXCEPT ![b] = IF blocks THEN "blocked" ELSE "pass"]
          /\ bwait' = [bwait EXCEPT ![b] = IF blocks THEN c ELSE 0]
          /\ bdisc' = [bdisc EXCEPT ![b] = disc]
          /\ UNCHANGED regvars
     ELSE /\ ~blocks
          /\ log' = log
          /\ bpc' = [bpc EXCEPT ![b] = "pass"]
          /\ bwait' = [bwait EXCEPT ![b] = 0]
          /\ bdisc' = [bdisc EXCEPT ![b] = Append(disc, <<c, cur>>)]
          /\ SetMgr(Disconnect(Mgr, c, cur))

\* await connection.send_json(message) inside try/except (lines 80-84).
\* The message is written to the transport when send_json is called; the
\* await then either completes at once or stays suspended until the client
\* has read enough (blocks), which is up to the client.
SendTo(b, c, it, cur, rest, disc, blocks) ==
  /\ bit' = [bit EXCEPT ![b] = it]
  /\ bcur' = [bcur EXCEPT ![b] = cur]
  /\ bcopy' = [bcopy EXCEPT ![b] = rest]
  /\ UNCHANGED regvars
  /\ IF tr[c] = "open"
     THEN /\ log' = Written(c, Event(b))
          /\ bpc' = [bpc EXCEPT ![b] = IF blocks THEN "blocked" ELSE "pass"]
          /\ bwait' = [bwait EXCEPT ![b] = IF blocks THEN c ELSE 0]
          /\ bdisc' = [bdisc EXCEPT ![b] = disc]
     ELSE /\ ~blocks
          /\ log' = log
          /\ bpc' = [bpc EXCEPT ![b] = "pass"]
          /\ bwait' = [bwait EXCEPT ![b] = 0]
          /\ bdisc' = [bdisc EXCEPT ![b] = Append(disc, <<c, cur>>)]

\* the locals of a broadcast call that has returned or raised; the list of
\* failed connections is kept for the record
Finished(b, how, disc) ==
  /\ bpc' = [bpc EXCEPT ![b] = how]
  /\ bit' = [bit EXCEPT ![b] = [pos |-> 0, used |-> 0, len |-> 0]]
  /\ bcur' = [bcur EXCEPT ![b] = None]
  /\ bcopy' = [bcopy EXCEPT ![b] = {}]
  /\ bwait' = [bwait EXCEPT ![b] = 0]
  /\ bdisc' = [bdisc EXCEPT ![b] = disc]
  /\ bexcl' = [bexcl EXCEPT ![b] = None]
  /\ bstart' = [bstart EXCEPT ![b] = {}]

\* the arguments and the snapshot of a call that goes on
Going(b, excl, start) ==
  /\ bexcl' = [bexcl EXCEPT ![b] = excl]
  /\ bstart' = [bstart EXCEPT ![b] = start]

\* ConnectionManager.broadcast (lines 72-88) from one suspension point to
\* the next: the rest of the current copy, else the next identity of the
\* live dict, else the cleanup loop and the return
Pass(b, excl, start, it, cur, copy, disc) ==
  IF copy # {}
  THEN /\ Going(b, excl, start)
       /\ \E c \in copy, blocks \in BOOLEAN :
             SendTo(b, c, it, cur, copy \ {c}, disc, blocks)
  ELSE LET r == NextTarget(active_connections, it, excl)
       IN CASE r.kind = "raise" ->
                 /\ Finished(b, "raised", disc)
                 /\ UNCHANGED <<regvars, log>>
            [] r.kind = "stop" ->
                 /\ SetMgr(DisconnectAll(Mgr, disc))
                 /\ Finished(b, "done", disc)
                 /\ UNCHANGED log
            [] OTHER ->
                 /\ Going(b, excl, start)
                 /\ \E c \in active_connections.sets[r.key], blocks \in BOOLEAN :
                       SendTo(b, c, r.it, r.key,
                              active_connections.sets[r.key] \ {c}, disc, blocks)

\* exclude_admin arguments tried
Excludes == {None, "a"}

\* the connections a call is meant for: registered, and not of the excluded
\* identity, when it is made
Audience(excl) ==
  {p[2] : p \in {q \in Pairs(active_connections) : q[1] # excl}}

\* a producer calls broadcast(message, exclude_admin): runs to the first
\* send (or to the return when there is nobody to send to)
BcastStart(b, excl) ==
  /\ bpc[b] = "idle"
  /\ \A b2 \in Bcasts : b2 < b => bpc[b2] # "idle"
  /\ Pass(b, excl, Audience(excl), NewIter(active_connections), None, {}, <<>>)
  /\ UNCHANGED <<pc, tr, ident, recvd, close>>
  /\ last' = None

\* the broadcast resumes after a send that completed or raised
BcastStep(b) ==
  /\ bpc[b] = "pass"
  /\ Pass(b, bexcl[b], bstart[b], bit[b], bcur[b], bcopy[b], bdisc[b])
  /\ UNCHANGED <<pc, tr, ident, recvd, close>>
  /\ last' = None

\* the client reads and the send the broadcast is suspended on completes
SendCompletes(b) ==
  /\ bpc[b] = "blocked"
  /\ tr[bwait[b]] = "open"
  /\ bpc' = [bpc EXCEPT ![b] = "pass"]
  /\ bwait' = [bwait EXCEPT ![b] = 0]
  /\ UNCHANGED <<regvars, sessvars, bexcl, bit, bcur, bcopy, bdisc, bstart>>
  /\ last' = None

\* the send the broadcast is suspended on raises: the client went away or
\* the server closed the transport meanwhile (lines 82-84)
SendFails(b) ==
  /\ bpc[b] = "blocked"
  /\ tr[bwait[b]] # "open"
  /\ bpc' = [bpc EXCEPT ![b] = "pass"]
  /\ bwait' = [bwait EXCEPT ![b] = 0]
  /\ bdisc' = [bdisc EXCEPT ![b] = Append(@, <<bwait[b], bcur[b]>>)]
  /\ UNCHANGED <<regvars, sessvars, bexcl, bit, bcur, bcopy, bstart>>
  /\ last' = None

\* ----------------------------------------------------------------- spec
Next ==
  \/ \E c \in Conns, t \in Tokens, dbErr \in BOOLEAN : Authenticate(c, t, dbErr)
  \/ \E c \in Conns, acceptRaises \in BOOLEAN : Connect(c, acceptRaises)
  \/ \E c \in Conns, data \in Inbound, sendOk, wsd, dbErr \in BOOLEAN :
        HandleMessage(c, data, sendOk, wsd, dbErr)
  \/ \E c \in Conns : RecvDisconnect(c)
  \/ \E c \in Conns : ClientDrop(c)
  \/ \E b \in Bcasts, excl \in Excludes : BcastStart(b, excl)
  \/ \E b \in Bcasts : BcastStep(b)
  \/ \E b \in Bcasts : SendCompletes(b)
  \/ \E b \in Bcasts : SendFails(b)

Spec == Init /\ [][Next]_vars

\* What the event loop guarantees: a task that can run is run.  Whether a
\* client reads (SendCompletes), drops, connects or sends is up to the client,
\* and whether a producer calls broadcast is up to the producer.
FairSpec ==
  /\ Spec
  /\ \A b \in Bcasts : WF_vars(BcastStep(b)) /\ WF_vars(SendFails(b))
  /\ \A c \in Conns : WF_vars(RecvDisconnect(c))
  /\ \A c \in Conns : WF_vars(\E r \in BOOLEAN : Connect(c, r))

\* FairSpec with producers that keep calling broadcast(message): every call
\* that has not been made yet is eventually made
FairBcastSpec ==
  /\ FairSpec
  /\ \A b \in Bcasts : WF_vars(BcastStart(b, None))

\* ------------------------------------------- the manager driven directly
\* ConnectionManager.connect (lines 23-43) called with any handle and any
\* identity, a handle that is already registered included.  What accept()
\* does on a handle that was accepted before is the transport library's
\* business: it returns, or it raises to the caller before line 27.
ApiConnect(c, u, acceptRaises) ==
  /\ Len(log[c]) < MaxCalls
  /\ IF acceptRaises
     THEN UNCHANGED <<regvars, log>>
     ELSE /\ SetMgr(Register(Mgr, c, u))
          /\ log' = send_personal_message(c, Ack)
  /\ last' = None
  /\ UNCHANGED <<bvars, pc, tr, ident, recvd, close>>

\* ConnectionManager.disconnect (lines 45-55) called with any handle and
\* any identity
ApiDisconnect(c, u) ==
  /\ connection_count > 0 - MaxCalls
  /\ SetMgr(Disconnect(Mgr, c, u))
  /\ last' = None
  /\ UNCHANGED <<bvars, sessvars>>

ApiNext ==
  \/ \E c \in Conns, u \in Identities, acceptRaises \in BOOLEAN :
        ApiConnect(c, u, acceptRaises)
  \/ \E c \in Conns, u \in Identities : ApiDisconnect(c, u)

ApiSpec == Init /\ [][ApiNext]_vars

\* ------------------------------------------------------------ properties
Occ(s, x) == Cardinality({k \in 1..Len(s) : s[k] = x})

Failed(b) == {bdisc[b][k][1] : k \in 1..Len(bdisc[b])}

Returned(b) == bpc[b] = "done"
Ended(b) == bpc[b] \in {"done", "raised"}
Running(b) == bpc[b] \in {"pass", "blocked"}

\* C1: in every reachable state Count() equals the number of (identity,
\* connection) pairs held in the registry.
C1_CountEqualsPairs ==
  Count = Cardinality(Pairs(active_connections))

\* C2: a disconnect of a session whose connection is no longer in its
\* identity's set (it was evicted by a broadcast) changes neither the
\* registry mapping nor Count().
C2_UnregisterAbsentIsNoop ==
  [][\A c \in Conns :
       (RecvDisconnect(c) /\ c \notin RegisteredConns) => UNCHANGED regvars]_vars

\* C3: a session that reached Active and has terminated, by whatever route,
\* no longer has its connection in the registry.
C3_TerminatedSessionUnregistered ==
  \A c \in Conns : pc[c] = "Closed" => c \notin RegisteredConns

\* C4: no broadcast call ends by raising to its caller.
C4_BroadcastNeverRaises ==
  \A b \in Bcasts : bpc[b] # "raised"

\* C5: when a broadcast in which some send failed ends, every other
\* connection that was registered and not excluded when it was called, and
\* whose session is still running on an open transport, has been sent the
\* event exactly once.
C5_OthersReceiveExactlyOnce ==
  [][\A b \in Bcasts :
       (Running(b) /\ Ended(b)' /\ Failed(b) # {}) =>
          \A c \in bstart[b] \ Failed(b) :
            (pc'[c] = "Active" /\ tr'[c] = "open") =>
               Occ(log'[c], Event(b)) = 1]_vars

\* C6: when a broadcast call returns, every connection whose send failed
\* during that call is absent from the registry, and so is an identity
\* whose last connection that was.
C6_FailedAbsentOnReturn ==
  \A b \in Bcasts :
    Returned(b) =>
      /\ Failed(b) \cap RegisteredConns = {}
      /\ \A u \in ConnectedAdmins : active_connections.sets[u] \ Failed(b) # {}

C6_Witness ==
  \E b \in Bcasts :
    /\ Returned(b)
    /\ Failed(b) # {}
    /\ RegisteredConns # {}

\* C7: a broadcast call that has been started eventually ends, whatever the
\* clients do.
C7_BroadcastEventuallyEnds ==
  \A b \in Bcasts : Running(b) ~> Ended(b)

\* C8: a connection whose token does not denote an active administrator is
\* rejected by the authentication step with the policy-violation close code,
\* the registry, Count() and every message log being left as they were; and
\* a rejected connection stays rejected, unregistered and without messages.
C8_AuthFailureNeverActive ==
  [][/\ \A c \in Conns, t \in Tokens, dbErr \in BOOLEAN :
          (Authenticate(c, t, dbErr) /\ ~Genuine(t)) =>
             /\ pc'[c] = "Rejected"
             /\ close'[c].code = PolicyViolation
             /\ UNCHANGED <<regvars, log>>
     /\ \A c \in Conns :
          pc[c] = "Rejected" =>
             /\ pc'[c] = "Rejected"
             /\ c \notin RegisteredConns'
             /\ log'[c] = <<>>]_vars

C8_Witness ==
  \E c, c2 \in Conns :
    /\ pc[c] = "Rejected"
    /\ close[c] = [code |-> PolicyViolation,
                   reason |-> "Invalid authentication token"]
    /\ pc[c2] = "Active"
    /\ Count = 1
    /\ \E b \in Bcasts : Occ(log[c2], Event(b)) = 1

\* C9: a running session on an open transport has been sent exactly one
\* connection_established, and whatever a connection has been sent starts
\* with it: no broadcast event precedes the acknowledgment.
C9_AckFirstAndOnce ==
  \A c \in Conns :
    pc[c] = "Active" =>
      /\ tr[c] = "open" => log[c] # <<>>
      /\ log[c] # <<>> =>
           /\ log[c][1] = Ack
           /\ Occ(log[c], Ack) = 1

C9_Witness ==
  \E c \in Conns, b \in Bcasts :
    /\ pc[c] = "Active"
    /\ Len(log[c]) >= 2
    /\ log[c][1] = Ack
    /\ log[c][2] = Event(b)

\* C10: a broadcast attempts delivery to exactly the connections that were
\* registered and not excluded when it was called: it attempts no other
\* connection, and when it ends each of them whose session still runs on an
\* open transport has been sent the event.
C10_DeliversToSnapshotExactly ==
  [][\A b \in Bcasts :
       /\ Running(b)' =>
            \A c \in Conns :
              (Occ(log'[c], Event(b)) > 0 \/ c \in Failed(b)') => c \in bstart'[b]
       /\ (Running(b) /\ Ended(b)') =>
            \A c \in bstart[b] :
              (pc'[c] = "Active" /\ tr'[c] = "open") =>
                 Occ(log'[c], Event(b)) > 0]_vars

\* C11: an identity is a key of the registry if and only if at least one
\* connection is registered under it: no key is present with an empty set.
C11_NoEmptyIdentity ==
  \A u \in Identities :
    u \in ConnectedAdmins <=> active_connections.sets[u] # {}

C11_Witness ==
  \E c, c2 \in Conns :
    /\ pc[c] = "Closed"
    /\ ident[c] \notin ConnectedAdmins
    /\ Len(active_connections.order) = 2
    /\ pc[c2] = "Active"
    /\ ConnectedAdmins = {ident[c2]}

\* C12: when two distinct connections are registered under one identity and
\* the session of one of them disconnects, the identity is still connected
\* with exactly the other connection, and Count() is exactly 1 lower.
C12_UnregisterOneOfTwo ==
  [][\A c, c2 \in Conns, u \in Identities :
       (/\ pc[c] = "Active" /\ pc'[c] = "Closed"
        /\ c # c2
        /\ u \in ConnectedAdmins
        /\ {c, c2} \subseteq active_connections.sets[u]
        /\ RecvDisconnect(c)) =>
          /\ u \in ConnectedAdmins'
          /\ active_connections'.sets[u] = active_connections.sets[u] \ {c}
          /\ c2 \in RegisteredConns'
          /\ c \notin RegisteredConns'
          /\ Count' = Count - 1]_vars

C12_Witness ==
  \E b \in Bcasts, c, c2 \in Conns :
    /\ c # c2
    /\ Running(b)
    /\ bstart[b] = {c, c2}
    /\ ident[c] = ident[c2]
    /\ pc[c] = "Closed"
    /\ active_connections.sets[ident[c2]] = {c2}
    /\ Count = 1

\* C13: a connection is sent the events of two broadcast calls in the order
\* in which the calls were made (a call with a lower number is made first).
C13_PerConnectionFifo ==
  \A c \in Conns :
    \A i, j \in 1..Len(log[c]) :
      \A b1, b2 \in Bcasts :
        (i < j /\ log[c][i] = Event(b1) /\ log[c][j] = Event(b2)) => b1 <= b2

C15_OnePongPerPing ==
  [][\A c \in Conns, sendOk, wsd, dbErr \in BOOLEAN :
       (last' = "ping" /\ recvd' # recvd /\
        HandleMessage(c, "ping", sendOk, wsd, dbErr)) =>
          /\ \A c2 \in Conns \ {c} : log'[c2] = log[c2]
          /\ sendOk =>
                /\ log'[c] = Append(log[c], Pong)
                /\ pc'[c] = "Active"
                /\ UNCHANGED regvars
          /\ ~sendOk => Occ(log'[c], Pong) <= Occ(log[c], Pong)]_vars

C15_Witness ==
  \E c, c2 \in Conns :
    /\ c # c2
    /\ last = "ping"
    /\ pc[c] = "Active" /\ pc[c2] = "Active"
    /\ tr[c2] = "open"
    /\ {c, c2} \subseteq RegisteredConns
    /\ Occ(log[c], Pong) = 1
    /\ Occ(log[c2], Pong) = 0
    /\ log[c2] # <<>>

\* C16: a text that json.loads cannot parse, handled on an Active
\* connection, changes neither Count(), the registry nor any session (the
\* connection is still Active and registered) and writes no message to any
\* connection.
C16_MalformedIsIgnored ==
  [][\A c \in Conns, sendOk, wsd, dbErr \in BOOLEAN :
       (last' = "garbage" /\ recvd' # recvd /\
        HandleMessage(c, "garbage", sendOk, wsd, dbErr)) =>
          /\ UNCHANGED <<regvars, pc, tr, ident, log, close>>
          /\ pc'[c] = "Active"]_vars

C16_Witness ==
  \E c \in Conns :
    /\ last = "garbage"
    /\ pc[c] = "Active"
    /\ c \in RegisteredConns
    /\ tr[c] = "open"
    /\ log[c] = <<Ack>>
    /\ Count = 1

\* C17: end to end.  (1) A broadcast called with two administrators
\* connected on one connection each, that returns without a failed send
\* while both sessions run, has sent both the same event exactly once.
\* (2) The disconnect of a registered session lowers Count() by exactly 1
\* and unregisters its connection.  (3) A broadcast called after that, with
\* the other session running on an open transport, has exactly the other
\* connection as its audience and sends it the event at once; and no
\* broadcast ever attempts a send on a disconnected, unregistered
\* connection that it did not already hold when the session disconnected.
C17_EndToEnd ==
  [][/\ \A b \in Bcasts, A, B \in Conns :
          (/\ Running(b) /\ Returned(b)' /\ Failed(b)' = {}
           /\ A # B /\ ident[A] # ident[B]
           /\ bstart[b] = {A, B}
           /\ pc'[A] = "Active" /\ pc'[B] = "Active") =>
             /\ Occ(log'[A], Event(b)) = 1
             /\ Occ(log'[B], Event(b)) = 1
     /\ \A A \in Conns :
          (pc[A] = "Active" /\ pc'[A] = "Closed" /\
           RecvDisconnect(A) /\ A \in RegisteredConns) =>
             /\ Count' = Count - 1
             /\ A \notin RegisteredConns'
     /\ \A b \in Bcasts, A, B \in Conns :
          (/\ bpc[b] = "idle" /\ bpc'[b] # "idle"
           /\ A # B
           /\ pc[A] = "Closed" /\ A \notin RegisteredConns
           /\ pc[B] = "Active" /\ tr[B] = "open"
           /\ RegisteredConns = {B}
           /\ BcastStart(b, None)) =>
             /\ bstart'[b] = {B}
             /\ log'[B] = Append(log[B], Event(b))
             /\ log'[A] = log[A]
             /\ A \notin Failed(b)'
     /\ \A b \in Bcasts, A \in Conns :
          (/\ pc[A] = "Closed" /\ A \notin RegisteredConns
           /\ A \notin bcopy[b] /\ bwait[b] # A) =>
             /\ A \notin bcopy'[b] /\ bwait'[b] # A
             /\ log'[A] = log[A]
             /\ Len(bdisc'[b]) > Len(bdisc[b]) =>
                   bdisc'[b][Len(bdisc'[b])][1] # A]_vars

C17_Witness ==
  \E A, B \in Conns :
    /\ active_connections.order = <<Tomb, ident[B]>>
    /\ pc[A] = "Closed" /\ A \notin RegisteredConns
    /\ pc[B] = "Active" /\ tr[B] = "open"
    /\ log[B] = <<Ack, Event(1), Event(2)>>
    /\ \A b \in Bcasts : Returned(b) /\ Failed(b) = {}
    /\ RegisteredConns = {B}
    /\ Count = 1

\* C18: a message that is neither a ping nor a request_stats, whatever its
\* shape (text that does not parse, a parsed value that is not an object, an
\* object with another type or with none), is ignored: the session is still
\* Active, its connection still registered, nothing is sent and nothing is
\* closed.
C18_UnhandledNeverEndsSession ==
  [][\A c \in Conns, sendOk, wsd, dbErr \in BOOLEAN :
       \A data \in {"garbage", "nonobject", "other", "notype"} :
         (last' = data /\ recvd' # recvd /\
          HandleMessage(c, data, sendOk, wsd, dbErr)) =>
            /\ UNCHANGED <<regvars, pc, tr, ident, log, close>>
            /\ pc'[c] = "Active"]_vars

\* C19: a broadcast call leaves the registry and Count() alone in every step
\* but its last: the step in which it returns sends nothing and unregisters
\* exactly the connections collected in `disconnected` during the pass.
C19_CleanupDeferred ==
  [][\A b \in Bcasts :
       (\/ bpc'[b] # bpc[b] \/ bit'[b] # bit[b] \/ bcopy'[b] # bcopy[b]
        \/ bdisc'[b] # bdisc[b] \/ bwait'[b] # bwait[b]) =>
          IF Returned(b)'
          THEN /\ log' = log
               /\ bdisc'[b] = IF bpc[b] = "idle" THEN <<>> ELSE bdisc[b]
               /\ Mgr' = DisconnectAll(Mgr, bdisc'[b])
          ELSE UNCHANGED regvars]_vars

C19_Witness ==
  \E b \in Bcasts, c, c2 \in Conns :
    /\ Running(b)
    /\ c \in Failed(b)
    /\ c \in RegisteredConns
    /\ c2 \in RegisteredConns
    /\ Occ(log[c2], Event(b)) = 1
    /\ bdisc[b][1][1] = c
    /\ Count = 2

\* C20: connect() on a handle that is already registered under the same
\* identity, when its accept() returns, leaves the identity's connection
\* set and Count() unchanged.
C20_DuplicateRegisterIsNoop ==
  [][\A c \in Conns, u \in Identities :
       (/\ u \in ConnectedAdmins
        /\ c \in active_connections.sets[u]
        /\ ApiConnect(c, u, FALSE)) =>
          /\ active_connections'.sets[u] = active_connections.sets[u]
          /\ Count' = Count]_vars

\* C22: Count() is never negative.
C22_CountNeverNegative ==
  Count >= 0

\* C23: the two figures of the health endpoint agree: ConnectedAdmins() is
\* empty if and only if Count() is 0, and Count() is at least the number of
\* identities in ConnectedAdmins().
C23_HealthFiguresAgree ==
  /\ (ConnectedAdmins = {}) <=> (Count = 0)
  /\ Count >= Cardinality(ConnectedAdmins)

\* C24: only a session that never reached Active is closed by the server
\* with the policy-violation code and an authentication-failure reason.
C24_AuthCloseOnlyBeforeActive ==
  \A c \in Conns :
    (/\ close[c].code = PolicyViolation
     /\ close[c].reason \in {"Authentication failed",
                             "Invalid authentication token",
                             "Admin not found or inactive"}) =>
       pc[c] = "Rejected"

\* C25: the step in which a broadcast call returns unregisters only
\* connections whose send failed during that call; every other connection
\* (delivered to, of the excluded identity, or registered during the pass)
\* that is registered before the step is registered after it.
C25_OnlyFailedUnregistered ==
  [][\A b \in Bcasts :
       (~Returned(b) /\ Returned(b)') =>
          \A c \in RegisteredConns :
            c \notin Failed(b)' => c \in RegisteredConns']_vars

C25_Witness ==
  \E b \in Bcasts, c, c2 \in Conns :
    /\ Returned(b)
    /\ Failed(b) = {c}
    /\ c \notin RegisteredConns
    /\ c2 \in RegisteredConns
    /\ pc[c2] = "Active"
    /\ ident[c2] = ident[c]
    /\ Occ(log[c2], Event(b)) = 1

\* C21: with producers that keep calling broadcast, a connection whose
\* transport is dead and that is still in the registry while a broadcast is
\* yet to be called is eventually absent from the registry, at the latest
\* when every broadcast call has ended.
C21_DeadEventuallyEvicted ==
  \A c \in Conns :
    (/\ tr[c] = "down"
     /\ c \in RegisteredConns
     /\ \E b \in Bcasts : bpc[b] = "idle")
      ~> (\/ c \notin RegisteredConns
          \/ \A b \in Bcasts : Ended(b))

====
